---- MODULE Spec2Model ----
(***************************************************************************)
(* Model of bmslib/jikong.py: the JK BMS bluetooth driver JKBt.            *)
(*                                                                         *)
(* Bytes are integers 0..255, byte strings are sequences, python offset k  *)
(* of a byte string is index k+1 of the sequence.  The asyncio event loop  *)
(* is the interleaving of the actions: every action runs from one await   *)
(* to the next.  The transport (bleak) and the BMS device are the          *)
(* environment.                                                            *)
(***************************************************************************)
EXTENDS Integers, Sequences, FiniteSets, TLC

VARIABLES
    buffer,          \* self._buffer
    fetch_futures,   \* self._fetch_futures: dict tag -> future (a heap id)
    resp_table,      \* self._resp_table: dict tag -> bytearray
    num_cells,       \* self.num_cells   (-1: attribute not set)
    capacity,        \* self.capacity in units of 0.001 Ah (-1: attribute not set)
    fut,             \* the asyncio.Future objects, by heap id
    conn,            \* the task running connect()
    fetcher,         \* the tasks running fetch()
    disc,            \* the task running disconnect()
    scanning,        \* the BleakScanner is started
    client_connected,\* the transport link is up
    notifying,       \* start_notify is in effect
    wire,            \* bytes the device has sent and the transport has not delivered yet
    dev,             \* the device: its kind, what it may still send, the kind of the
                     \* frame it streamed last and len(self._buffer) when it began it
    sleeps,          \* the delays passed to asyncio.sleep by connect(), in order
    last_attempt,    \* what the latest connect attempt did
    \* what the handler did since the device began the frame it streamed last:
    decoded,         \* the frames passed to _decode_msg, in order
    crc_errors,      \* number of "crc check failed" reports
    cb_errors,       \* number of exceptions that escaped _notification_handler
    dropped          \* number of buffered bytes discarded by the preamble check (line 56)

vars == <<buffer, fetch_futures, resp_table, num_cells, capacity, fut, conn, fetcher,
          disc, scanning, client_connected, notifying, wire, dev, sleeps,
          last_attempt, decoded, crc_errors, cb_errors, dropped>>

----------------------------------------------------------------------------
(* Codec *)

MIN_RESPONSE_SIZE == 300

Min(a, b) == IF a < b THEN a ELSE b

\* python s[a:b] for 0 <= a <= b
Slice(s, a, b) == SubSeq(s, a + 1, Min(b, Len(s)))

\* sum of s[lo..hi], by halves (the recursion stays shallow on 300 bytes)
RECURSIVE SumBytes(_, _, _)
SumBytes(s, lo, hi) ==
    IF lo > hi THEN 0
    ELSE IF lo = hi THEN s[lo]
    ELSE LET mid == (lo + hi) \div 2
         IN  SumBytes(s, lo, mid) + SumBytes(s, mid + 1, hi)

\* sum(message_bytes) & 0xFF
calc_crc(message_bytes) == SumBytes(message_bytes, 1, Len(message_bytes)) % 256

\* bytes([0x55, 0xAA, 0xEB, 0x90])
Preamble == <<85, 170, 235, 144>>

\* int.from_bytes(b, byteorder='little', signed=False)
RECURSIVE from_bytes_little(_)
from_bytes_little(b) ==
    IF b = <<>> THEN 0 ELSE b[1] + 256 * from_bytes_little(Tail(b))

\* dict helpers
DictSet(d, k, v) == [x \in DOMAIN d \cup {k} |-> IF x = k THEN v ELSE d[x]]
DictDel(d, k) == [x \in DOMAIN d \ {k} |-> d[x]]
Values(d) == {d[x] : x \in DOMAIN d}
EmptyDict == [x \in {} |-> 0]

----------------------------------------------------------------------------
(* Response frames the device can build *)

\* the four little-endian bytes of v, as a dict offset -> byte
Put32(off, v) == [o \in off..(off + 3) |-> (v \div (256 ^ (o - off))) % 256]

\* a 300-byte response frame: preamble, tag at offset 4, the given payload
\* bytes (a dict offset -> byte), zeros elsewhere, checksum trailer
ResponseBody(tag, fields) ==
    [i \in 1..(MIN_RESPONSE_SIZE - 1) |->
        IF i <= 4 THEN Preamble[i]
        ELSE IF i = 5 THEN tag
        ELSE IF (i - 1) \in DOMAIN fields THEN fields[i - 1]
        ELSE 0]

ResponseFrame(tag, fields) ==
    Append(ResponseBody(tag, fields), calc_crc(ResponseBody(tag, fields)))

\* frame f with the byte at python offset off replaced by b
WithByte(f, off, b) == [f EXCEPT ![off + 1] = b]

\* a device-info style frame: cell count at 114, rated capacity at 130
InfoFrame(tag, c, r) == ResponseFrame(tag, (114 :> c) @@ Put32(130, r))

\* a telemetry frame: full charge capacity at 146
TeleFrame(full) == ResponseFrame(2, Put32(146, full))

\* the two little-endian bytes of v, as a dict offset -> byte
Put16(off, v) == (off :> (v % 256)) @@ ((off + 1) :> ((v \div 256) % 256))

\* a telemetry frame with the fields fetch decodes: full charge capacity at
\* 146, remaining charge at 142, the raw temperature t at 130, 132 and 134
SampleFrame(full, charge, t) ==
    ResponseFrame(2, Put32(146, full) @@ Put32(142, charge)
                     @@ Put16(130, t) @@ Put16(132, t) @@ Put16(134, t))

\* a valid telemetry frame whose payload holds the bytes 55 AA EB 90 at
\* offset PreOffset (a part of the payload the driver does not decode)
PreOffset == 8 * 20
PreFrame(full) ==
    ResponseFrame(2, Put32(146, full)
                     @@ (PreOffset :> 85) @@ ((PreOffset + 1) :> 170)
                     @@ ((PreOffset + 2) :> 235) @@ ((PreOffset + 3) :> 144))

----------------------------------------------------------------------------
(* asyncio.Future objects *)

MaxFut == 5
FutIds == 1..MaxFut
\* tag: the key the future was registered under (kept for the properties)
FreeFut == [state |-> "free", result |-> <<>>, tag |-> 0]
PendingFut(t) == [state |-> "pending", result |-> <<>>, tag |-> t]

\* asyncio.Future(): the object gets the lowest id no live object has
NewFutId(heap) ==
    CHOOSE i \in FutIds :
        /\ heap[i].state = "free"
        /\ \A j \in FutIds : heap[j].state = "free" => i <= j

\* objects nothing refers to any more are dropped from the heap
Collect(heap, table, awaited) ==
    [i \in FutIds |-> IF i \in Values(table) \cup awaited THEN heap[i] ELSE FreeFut]

----------------------------------------------------------------------------
(* Response Router: JKBt._decode_msg *)

\* lines 72-80 with the store of line 76 left out
decode_msg_unstored(buf, cur, table, futures, heap) ==
    LET resp_type == buf[5]
        has == resp_type \in DOMAIN futures
        f == IF has THEN futures[resp_type] ELSE 0
        futures2 == IF has THEN DictDel(futures, resp_type) ELSE futures
    IN  IF ~has
        THEN [resp_table |-> table, fetch_futures |-> futures2, fut |-> heap,
              raised |-> FALSE]
        ELSE IF heap[f].state = "pending"
        THEN [resp_table |-> table, fetch_futures |-> futures2,
              fut |-> [heap EXCEPT ![f].state = "done", ![f].result = cur],
              raised |-> FALSE]
        ELSE [resp_table |-> table, fetch_futures |-> futures2, fut |-> heap,
              raised |-> TRUE]

\* buf is the frame, cur is self._buffer at the time of the call.
\* raised: fut.set_result on a future that is not pending raises
\* asyncio.InvalidStateError
decode_msg(buf, cur, table, futures, heap) ==
    LET resp_type == buf[5]
        table2 == DictSet(table, resp_type, buf)
        has == resp_type \in DOMAIN futures
        f == IF has THEN futures[resp_type] ELSE 0
        futures2 == IF has THEN DictDel(futures, resp_type) ELSE futures
    IN  IF ~has
        THEN [resp_table |-> table2, fetch_futures |-> futures2, fut |-> heap,
              raised |-> FALSE]
        ELSE IF heap[f].state = "pending"
        THEN [resp_table |-> table2, fetch_futures |-> futures2,
              fut |-> [heap EXCEPT ![f].state = "done", ![f].result = cur],
              raised |-> FALSE]
        ELSE [resp_table |-> table2, fetch_futures |-> futures2, fut |-> heap,
              raised |-> TRUE]

----------------------------------------------------------------------------
(* Frame Assembler: JKBt._notification_handler *)

\* line 54: data[0:4] == bytes([0x55, 0xAA, 0xEB, 0x90])
StartsWithPreamble(data) == Slice(data, 0, 4) = Preamble

\* lines 54-58 without the clear of line 56
Accumulate_keep(buf, data) == buf \o data

\* lines 54-58: the buffer after the preamble check and the append
Accumulate(buf, data) ==
    (IF StartsWithPreamble(data) THEN <<>> ELSE buf) \o data

\* lines 64-66 comparing the low seven bits only
CrcOk_low7(buf) ==
    calc_crc(Slice(buf, 0, MIN_RESPONSE_SIZE - 1)) % 128 = buf[MIN_RESPONSE_SIZE] % 128

\* lines 64-66
CrcOk(buf) ==
    calc_crc(Slice(buf, 0, MIN_RESPONSE_SIZE - 1)) = buf[MIN_RESPONSE_SIZE]

\* line 63
Complete(buf) == Len(buf) >= MIN_RESPONSE_SIZE

\* lines 52-70 with the clear of line 70 moved into the else branch: a
\* buffer that fails the checksum is kept
notification_handler_sticky(data, buf, table, futures, heap) ==
    LET b == Accumulate(buf, data)
    IN  IF ~Complete(b)
        THEN [buffer |-> b, resp_table |-> table, fetch_futures |-> futures,
              fut |-> heap, emitted |-> <<>>, crc_failed |-> FALSE, raised |-> FALSE]
        ELSE IF ~CrcOk(b)
        THEN [buffer |-> b, resp_table |-> table, fetch_futures |-> futures,
              fut |-> heap, emitted |-> <<>>, crc_failed |-> TRUE, raised |-> FALSE]
        ELSE LET r == decode_msg(b, b, table, futures, heap)
             IN  [buffer |-> IF r.raised THEN b ELSE <<>>,
                  resp_table |-> r.resp_table, fetch_futures |-> r.fetch_futures,
                  fut |-> r.fut, emitted |-> <<b>>, crc_failed |-> FALSE,
                  raised |-> r.raised]

\* the whole handler: the object's fields after the call, and what it did
\* (emitted: the frame passed to _decode_msg; crc_failed: line 67 ran; raised:
\* an exception left the handler, so line 70 did not run)
notification_handler(data, buf, table, futures, heap) ==
    LET b == Accumulate(buf, data)
    IN  IF ~Complete(b)
        THEN [buffer |-> b, resp_table |-> table, fetch_futures |-> futures,
              fut |-> heap, emitted |-> <<>>, crc_failed |-> FALSE, raised |-> FALSE]
        ELSE IF ~CrcOk(b)
        THEN [buffer |-> <<>>, resp_table |-> table, fetch_futures |-> futures,
              fut |-> heap, emitted |-> <<>>, crc_failed |-> TRUE, raised |-> FALSE]
        ELSE LET r == decode_msg(b, b, table, futures, heap)
             IN  [buffer |-> IF r.raised THEN b ELSE <<>>,
                  resp_table |-> r.resp_table, fetch_futures |-> r.fetch_futures,
                  fut |-> r.fut, emitted |-> <<b>>, crc_failed |-> FALSE,
                  raised |-> r.raised]

----------------------------------------------------------------------------
(* The tasks *)

Fetchers == {"f1"}

\* the futures some task is suspended on
Awaited(c, fs) == ({c.awaited} \cup {fs[f].awaited : f \in Fetchers}) \ {0}

\* self._fetch_futures[resp] = asyncio.Future()
Register(resp, futures, heap) ==
    LET id == NewFutId(heap)
    IN  [fetch_futures |-> DictSet(futures, resp, id),
         fut |-> [heap EXCEPT ![id] = PendingFut(resp)],
         id |-> id]

\* the timer of asyncio.wait_for(..., self.TIMEOUT) can only expire while the
\* transport has nothing of the device left to deliver: the 8 seconds are long
\* against the delivery of a frame
Quiet == wire = <<>>

----------------------------------------------------------------------------
(* The device and the transport (environment) *)

\* opcodes of the two bootstrap queries (lines 118, 119)
CMD_DEVICE_INFO == 151
CMD_DEVICE_STATE == 150

\* the rated capacity of the pack, in 0.001 Ah (100.0 Ah)
RatedCapacity == 100 * 1000

DeviceKinds == {"spec", "jk"}
CellCounts == {0, 16, 48, 49}

\* what a device of kind k with c cells sends in answer to a command.  A "spec"
\* device answers 0x97 with a tag-0x01 device-info frame and 0x96 with a
\* tag-0x02 frame; a "jk" device answers 0x97 with a tag-0x03 frame (hardware
\* information, no field the driver reads) and 0x96 with the tag-0x01 frame
\* followed by the first tag-0x02 frame
Answer(k, c, cmd) ==
    IF cmd = CMD_DEVICE_INFO
    THEN IF k = "spec" THEN <<InfoFrame(1, c, RatedCapacity)>>
         ELSE <<ResponseFrame(3, EmptyDict)>>
    ELSE IF k = "spec" THEN <<TeleFrame(RatedCapacity)>>
         ELSE <<InfoFrame(1, c, RatedCapacity), TeleFrame(RatedCapacity)>>

\* the device is of one kind and has one cell count: both show (and are fixed)
\* when it first answers
DeviceIs(d, k, c) == d.kind \in {"?", k} /\ d.cells \in {-1, c}

\* the device receives a command: it answers as long as it has frames left
DeviceReceive(d, w, k, c, cmd) ==
    LET ans == Answer(k, c, cmd)
        n == Min(Len(ans), d.budget)
    IN  [dev |-> [d EXCEPT !.kind = k, !.cells = c, !.budget = d.budget - n,
                           !.streaming = (d.streaming \/ cmd = CMD_DEVICE_STATE)],
         wire |-> w \o SubSeq(ans, 1, n)]

----------------------------------------------------------------------------
(* JKBt.connect: the retry loop, lines 89-114 *)

MAX_ATTEMPTS == 8

NoAttempt == [n |-> 0, discovered |-> FALSE, called |-> FALSE]

\* 0.2 * (1.5 ** attempt) seconds, in units of 1/640 s (640 = 5 * 2^7), which
\* keeps every delay of attempts 1..7 an integer: 0.2 * 1.5^a = 3^a * 2^(7-a) / 640
sleep_delay(attempt) == (128 * (3 ^ attempt)) \div (2 ^ attempt)

\* line 106 with <= for <
MayRetry_inclusive(attempt) == attempt <= MAX_ATTEMPTS

\* line 106
MayRetry(attempt) == attempt < MAX_ATTEMPTS

\* line 98 without the membership test
CallsConnect_unchecked(discovered) == TRUE

\* line 98: the transport connect is called only for a discovered device
CallsConnect(discovered) == discovered

Fail(c, e) == [c EXCEPT !.pc = "failed", !.err = e, !.awaited = 0]

\* connect() is called (on an engine whose link is down); scanner.start()
ConnectStart ==
    /\ conn.pc = "idle"
    /\ conn' = [pc |-> "attempt", attempt |-> 1, q |-> 0, awaited |-> 0, err |-> "",
                written |-> <<>>]
    /\ scanning' = TRUE
    /\ sleeps' = <<>>
    /\ last_attempt' = NoAttempt
    /\ UNCHANGED <<buffer, fetch_futures, resp_table, num_cells, capacity, fut, fetcher,
                   disc, client_connected, notifying, wire, dev, decoded, crc_errors,
                   cb_errors, dropped>>

\* one pass of the loop body, lines 96-112: discovered is whether the address is
\* in scanner.discovered_devices, ok whether the transport connect succeeds
ConnectAttempt(discovered, ok) ==
    /\ conn.pc = "attempt"
    /\ last_attempt' = [n |-> conn.attempt, discovered |-> discovered,
                        called |-> CallsConnect(discovered)]
    /\ IF CallsConnect(discovered) /\ ok
       THEN /\ client_connected' = TRUE
            /\ conn' = [conn EXCEPT !.pc = "stop_scan"]
            /\ UNCHANGED <<sleeps, scanning>>
       ELSE /\ client_connected' = FALSE
            /\ IF MayRetry(conn.attempt)
               THEN /\ sleeps' = Append(sleeps, sleep_delay(conn.attempt))
                    /\ conn' = [conn EXCEPT !.pc = "sleep"]
                    /\ UNCHANGED scanning
               ELSE /\ scanning' = FALSE
                    /\ conn' = Fail(conn, "ConnectionFailed")
                    /\ UNCHANGED sleeps
    /\ UNCHANGED <<buffer, fetch_futures, resp_table, num_cells, capacity, fut, fetcher,
                   disc, notifying, wire, dev, decoded, crc_errors, cb_errors, dropped>>

\* asyncio.sleep returns; attempt += 1
ConnectWake ==
    /\ conn.pc = "sleep"
    /\ conn' = [conn EXCEPT !.pc = "attempt", !.attempt = conn.attempt + 1]
    /\ UNCHANGED <<buffer, fetch_futures, resp_table, num_cells, capacity, fut, fetcher,
                   disc, scanning, client_connected, notifying, wire, dev, sleeps,
                   last_attempt, decoded, crc_errors, cb_errors, dropped>>

\* line 114: scanner.stop().  The loop is over: its counter and the record of
\* its sleeps are dropped.
ConnectStopScan ==
    /\ conn.pc = "stop_scan"
    /\ scanning' = FALSE
    /\ conn' = [conn EXCEPT !.pc = "subscribe", !.attempt = 0]
    /\ sleeps' = <<>>
    /\ last_attempt' = NoAttempt
    /\ UNCHANGED <<buffer, fetch_futures, resp_table, num_cells, capacity, fut, fetcher,
                   disc, client_connected, notifying, wire, dev, decoded, crc_errors,
                   cb_errors, dropped>>

\* line 116: start_notify (it raises when the link is down)
ConnectSubscribe ==
    /\ conn.pc = "subscribe"
    /\ IF client_connected
       THEN /\ notifying' = TRUE
            /\ conn' = [conn EXCEPT !.pc = "subscribed"]
       ELSE /\ conn' = Fail(conn, "TransportError")
            /\ UNCHANGED notifying
    /\ UNCHANGED <<buffer, fetch_futures, resp_table, num_cells, capacity, fut, fetcher,
                   disc, scanning, client_connected, wire, dev, sleeps,
                   last_attempt, decoded, crc_errors, cb_errors, dropped>>

----------------------------------------------------------------------------
(* JKBt._q and the bootstrap, lines 116-141 *)

\* line 118: self._q(cmd=0x97, resp=0x03); line 119: self._q(cmd=0x96, resp=0x02)
QueryCmd(q) == IF q = 1 THEN CMD_DEVICE_INFO ELSE CMD_DEVICE_STATE
QueryResp(q) == IF q = 1 THEN 3 ELSE 2

\* line 134: assert cmd not in self._fetch_futures
QueryAllowed(cmd, resp, futures) == cmd \notin DOMAIN futures

\* lines 134-138, up to the await of write_gatt_char
q_begin(c, q, futures, heap) ==
    IF ~QueryAllowed(QueryCmd(q), QueryResp(q), futures)
    THEN [conn |-> Fail(c, "AlreadyWaiting"), fetch_futures |-> futures, fut |-> heap]
    ELSE LET r == Register(QueryResp(q), futures, heap)
         IN  [conn |-> [c EXCEPT !.pc = "q_write", !.q = q, !.awaited = 0],
              fetch_futures |-> r.fetch_futures, fut |-> r.fut]

\* lines 122-125: Device Identity from the last-known tag-0x01 frame
MAX_CELLS == 48
\* line 124 with 0 <= for 0 <
ValidCellCount_loose(n) == 0 <= n /\ n <= MAX_CELLS
\* line 124
ValidCellCount(n) == 0 < n /\ n <= MAX_CELLS

IdentityCells(buf) == buf[114 + 1]
IdentityCapacity(buf) == from_bytes_little(Slice(buf, 130, 134))

parse_identity(table, cells, cap) ==
    IF 1 \notin DOMAIN table
    THEN [err |-> "KeyError", num_cells |-> cells, capacity |-> cap]
    ELSE IF ~ValidCellCount(IdentityCells(table[1]))
    THEN [err |-> "InvalidDeviceIdentity", num_cells |-> IdentityCells(table[1]),
          capacity |-> cap]
    ELSE [err |-> "", num_cells |-> IdentityCells(table[1]),
          capacity |-> IdentityCapacity(table[1])]

\* connect() resumes after start_notify and enters the first query
ConnectQueryBegin ==
    /\ conn.pc = "subscribed"
    /\ \E r \in {q_begin(conn, 1, fetch_futures, fut)} :
           /\ conn' = r.conn
           /\ fetch_futures' = r.fetch_futures
           /\ fut' = Collect(r.fut, r.fetch_futures, Awaited(r.conn, fetcher))
    /\ UNCHANGED <<buffer, resp_table, num_cells, capacity, fetcher, disc, scanning,
                   client_connected, notifying, wire, dev, sleeps, last_attempt,
                   decoded, crc_errors, cb_errors, dropped>>

\* write_gatt_char returns (line 138); line 139 looks the future up again and
\* waits for it.  The device answers once the command is written.
ConnectWritten(k, c) ==
    /\ conn.pc = "q_write"
    /\ DeviceIs(dev, k, c)
    /\ IF ~client_connected
       THEN /\ conn' = Fail(conn, "TransportError")
            /\ UNCHANGED <<dev, wire>>
       ELSE /\ \E d \in {DeviceReceive(dev, wire, k, c, QueryCmd(conn.q))} :
                   /\ dev' = d.dev
                   /\ wire' = IF notifying THEN d.wire ELSE wire
            /\ IF QueryResp(conn.q) \notin DOMAIN fetch_futures
               THEN conn' = [Fail(conn, "KeyError") EXCEPT
                                !.written = Append(conn.written, QueryCmd(conn.q))]
               ELSE conn' = [conn EXCEPT !.pc = "q_wait",
                                !.awaited = fetch_futures[QueryResp(conn.q)],
                                !.written = Append(conn.written, QueryCmd(conn.q))]
    /\ UNCHANGED <<buffer, fetch_futures, resp_table, num_cells, capacity, fut, fetcher,
                   disc, scanning, client_connected, notifying, sleeps, last_attempt,
                   decoded, crc_errors, cb_errors, dropped>>

\* the awaited future has a result: _q returns.  After the first query the
\* second begins at once; after the second, lines 122-125 run.
ConnectResumed ==
    /\ conn.pc = "q_wait"
    /\ fut[conn.awaited].state = "done"
    /\ IF conn.q = 1
       THEN /\ \E r \in {q_begin([conn EXCEPT !.awaited = 0], 2, fetch_futures, fut)} :
                   /\ conn' = r.conn
                   /\ fetch_futures' = r.fetch_futures
                   /\ fut' = Collect(r.fut, r.fetch_futures, Awaited(r.conn, fetcher))
            /\ UNCHANGED <<num_cells, capacity>>
       ELSE /\ \E r \in {parse_identity(resp_table, num_cells, capacity)} :
                   /\ num_cells' = r.num_cells
                   /\ capacity' = r.capacity
                   /\ conn' = IF r.err = ""
                              THEN [conn EXCEPT !.pc = "done", !.awaited = 0]
                              ELSE Fail(conn, r.err)
            /\ fut' = Collect(fut, fetch_futures, Awaited(conn', fetcher))
            /\ UNCHANGED fetch_futures
    /\ UNCHANGED <<buffer, resp_table, fetcher, disc, scanning, client_connected,
                   notifying, wire, dev, sleeps, last_attempt, decoded, crc_errors,
                   cb_errors, dropped>>

\* asyncio.wait_for times out: it cancels the future and raises TimeoutError
ConnectTimeout ==
    /\ conn.pc = "q_wait"
    /\ fut[conn.awaited].state = "pending"
    /\ Quiet
    /\ conn' = Fail(conn, "ResponseTimeout")
    /\ fut' = Collect([fut EXCEPT ![conn.awaited].state = "cancelled"],
                      fetch_futures, Awaited(conn', fetcher))
    /\ UNCHANGED <<buffer, fetch_futures, resp_table, num_cells, capacity, fetcher,
                   disc, scanning, client_connected, notifying, wire, dev, sleeps,
                   last_attempt, decoded, crc_errors, cb_errors, dropped>>

\* the awaited future was cancelled by another task's wait_for
ConnectCancelled ==
    /\ conn.pc = "q_wait"
    /\ fut[conn.awaited].state = "cancelled"
    /\ conn' = Fail(conn, "Cancelled")
    /\ fut' = Collect(fut, fetch_futures, Awaited(conn', fetcher))
    /\ UNCHANGED <<buffer, fetch_futures, resp_table, num_cells, capacity, fetcher,
                   disc, scanning, client_connected, notifying, wire, dev, sleeps,
                   last_attempt, decoded, crc_errors, cb_errors, dropped>>

----------------------------------------------------------------------------
(* JKBt.fetch, lines 143-178 *)

\* the lambdas of lines 161-164; the scale factors are left out: every value is
\* the raw integer (f32u, f32s: 0.001 units)
i16(buf, i) == from_bytes_little(Slice(buf, i, i + 2))
u32(buf, i) == from_bytes_little(Slice(buf, i, i + 2))
f32u(buf, i) == from_bytes_little(Slice(buf, i, i + 4))
\* signed=True: two's complement, the top byte carries the sign
f32s(buf, i) ==
    LET b == Slice(buf, i, i + 4)
    IN  IF Len(b) = 4 /\ b[4] >= 128
        THEN from_bytes_little(SubSeq(b, 1, 3)) + (b[4] - 256) * (256 ^ 3)
        ELSE from_bytes_little(b)

NoSample == [voltage |-> 0, current |-> 0, charge_full |-> -1, temperatures |-> <<>>,
             mos_temperature |-> 0, balance_current |-> 0, charge |-> 0,
             num_cycles |-> 0]

\* lines 160-178 without the assert of line 166
fetch_decode_unchecked(table, cap) ==
    IF 2 \notin DOMAIN table
    THEN [err |-> "NoDataYet", sample |-> NoSample]
    ELSE [err |-> "",
          sample |-> [voltage |-> f32u(table[2], 118),
                      current |-> f32s(table[2], 126),
                      charge_full |-> cap,
                      temperatures |-> <<i16(table[2], 130), i16(table[2], 132)>>,
                      mos_temperature |-> i16(table[2], 134),
                      balance_current |-> i16(table[2], 138),
                      charge |-> f32u(table[2], 142),
                      num_cycles |-> u32(table[2], 150)]]

\* lines 160-178 on the last-known tag-0x02 frame; cap = -1 stands for an engine
\* whose capacity attribute was never set (no bootstrap has completed)
fetch_decode(table, cap) ==
    IF 2 \notin DOMAIN table
    THEN [err |-> "NoDataYet", sample |-> NoSample]
    ELSE IF cap = -1
    THEN [err |-> "AttributeError", sample |-> NoSample]
    ELSE IF f32u(table[2], 146) # cap
    THEN [err |-> "CapacityMismatch", sample |-> NoSample]
    ELSE [err |-> "",
          sample |-> [voltage |-> f32u(table[2], 118),
                      current |-> f32s(table[2], 126),
                      charge_full |-> cap,
                      temperatures |-> <<i16(table[2], 130), i16(table[2], 132)>>,
                      mos_temperature |-> i16(table[2], 134),
                      balance_current |-> i16(table[2], 138),
                      charge |-> f32u(table[2], 142),
                      num_cycles |-> u32(table[2], 150)]]

Finish(t, r) ==
    [t EXCEPT !.pc = IF r.err = "" THEN "done" ELSE "failed", !.err = r.err,
              !.sample = r.sample, !.awaited = 0]

\* fetch(wait) is called: with wait it registers a future for tag 0x02 and
\* suspends (lines 157-158), without it decodes at once
FetchCall(f, wait) ==
    /\ fetcher[f].pc \in {"idle", "done", "failed"}
    /\ IF wait
       THEN \E r \in {Register(2, fetch_futures, fut)} :
                /\ fetcher' = [fetcher EXCEPT ![f] = [pc |-> "wait", awaited |-> r.id,
                                                      err |-> "", sample |-> NoSample]]
                /\ fetch_futures' = r.fetch_futures
                /\ fut' = Collect(r.fut, r.fetch_futures, Awaited(conn, fetcher'))
       ELSE /\ fetcher' = [fetcher EXCEPT
                              ![f] = Finish(fetcher[f], fetch_decode(resp_table, capacity))]
            /\ UNCHANGED <<fetch_futures, fut>>
    /\ UNCHANGED <<buffer, resp_table, num_cells, capacity, conn, disc, scanning,
                   client_connected, notifying, wire, dev, sleeps, last_attempt,
                   decoded, crc_errors, cb_errors, dropped>>

\* the awaited future has a result: line 160 onwards
FetchResumed(f) ==
    /\ fetcher[f].pc = "wait"
    /\ fut[fetcher[f].awaited].state = "done"
    /\ fetcher' = [fetcher EXCEPT
                      ![f] = Finish(fetcher[f], fetch_decode(resp_table, capacity))]
    /\ fut' = Collect(fut, fetch_futures, Awaited(conn, fetcher'))
    /\ UNCHANGED <<buffer, fetch_futures, resp_table, num_cells, capacity, conn, disc,
                   scanning, client_connected, notifying, wire, dev, sleeps,
                   last_attempt, decoded, crc_errors, cb_errors, dropped>>

\* line 158 awaiting the future without wait_for: no timer ever expires
FetchTimeout_untimed(f) == FALSE /\ UNCHANGED vars

\* asyncio.wait_for times out (line 158)
FetchTimeout(f) ==
    /\ fetcher[f].pc = "wait"
    /\ fut[fetcher[f].awaited].state = "pending"
    /\ Quiet
    /\ fetcher' = [fetcher EXCEPT
                      ![f] = Finish(fetcher[f], [err |-> "ResponseTimeout",
                                                 sample |-> NoSample])]
    /\ fut' = Collect([fut EXCEPT ![fetcher[f].awaited].state = "cancelled"],
                      fetch_futures, Awaited(conn, fetcher'))
    /\ UNCHANGED <<buffer, fetch_futures, resp_table, num_cells, capacity, conn, disc,
                   scanning, client_connected, notifying, wire, dev, sleeps,
                   last_attempt, decoded, crc_errors, cb_errors, dropped>>

\* the awaited future was cancelled by another task's wait_for
FetchCancelled(f) ==
    /\ fetcher[f].pc = "wait"
    /\ fut[fetcher[f].awaited].state = "cancelled"
    /\ fetcher' = [fetcher EXCEPT
                      ![f] = Finish(fetcher[f], [err |-> "Cancelled",
                                                 sample |-> NoSample])]
    /\ fut' = Collect(fut, fetch_futures, Awaited(conn, fetcher'))
    /\ UNCHANGED <<buffer, fetch_futures, resp_table, num_cells, capacity, conn, disc,
                   scanning, client_connected, notifying, wire, dev, sleeps,
                   last_attempt, decoded, crc_errors, cb_errors, dropped>>

----------------------------------------------------------------------------
(* JKBt.disconnect, lines 127-131 *)

\* line 129: stop_notify; notifications not delivered yet are dropped
DisconnectBegin ==
    /\ disc = "idle"
    /\ client_connected
    /\ disc' = "stopping"
    /\ notifying' = FALSE
    /\ wire' = <<>>
    /\ UNCHANGED <<buffer, fetch_futures, resp_table, num_cells, capacity, fut, conn,
                   fetcher, scanning, client_connected, dev, sleeps, last_attempt,
                   decoded, crc_errors, cb_errors, dropped>>

\* line 130: self._fetch_futures.clear()
clear_futures(futures) == EmptyDict

\* lines 130-131: the table is cleared, the link is released
DisconnectFinish ==
    /\ disc = "stopping"
    /\ disc' = "idle"
    /\ fetch_futures' = clear_futures(fetch_futures)
    /\ fut' = Collect(fut, fetch_futures', Awaited(conn, fetcher))
    /\ client_connected' = FALSE
    /\ UNCHANGED <<buffer, resp_table, num_cells, capacity, conn, fetcher, scanning,
                   notifying, wire, dev, sleeps, last_attempt, decoded, crc_errors,
                   cb_errors, dropped>>

----------------------------------------------------------------------------
(* The device streams, the transport delivers *)

\* a frame damaged in transit: one byte of f, at python offset off, is
\* raised by delta modulo 256
Corrupt(f, off, delta) == WithByte(f, off, (f[off + 1] + delta) % 256)

\* what a streaming device pushes, by kind:
\*   <<"tele">>     telemetry reporting the rated capacity
\*   <<"other">>    telemetry reporting another full-charge capacity (0.5 Ah less)
\*   <<"pre">>      telemetry whose payload holds the preamble bytes
\*   <<"info">>     a tag-0x01 frame (16 cells)
\*   <<"sample", full, charge, t>>  telemetry with these field values
\*   <<"long">>     one notification of 320 bytes: a telemetry frame and the
\*                  first 20 bytes of the next
\*   <<"zeros">>    300 zero bytes
\*   <<"damaged", k, off, delta>>  the frame of kind <<k>> with one byte damaged
ValidFrame(k) ==
    CASE k[1] = "tele" -> TeleFrame(RatedCapacity)
      [] k[1] = "other" -> TeleFrame(RatedCapacity - 500)
      [] k[1] = "pre" -> PreFrame(RatedCapacity)
      [] k[1] = "info" -> InfoFrame(1, 16, RatedCapacity)
      [] k[1] = "sample" -> SampleFrame(k[2], k[3], k[4])

StreamFrame(k) ==
    CASE k[1] = "damaged" -> Corrupt(ValidFrame(<<k[2]>>), k[3], k[4])
      [] k[1] = "long" ->
             TeleFrame(RatedCapacity) \o SubSeq(TeleFrame(RatedCapacity), 1, 20)
      [] k[1] = "zeros" -> [i \in 1..MIN_RESPONSE_SIZE |-> 0]
      [] OTHER -> ValidFrame(k)

StreamKinds == {<<"tele">>, <<"other">>, <<"pre">>, <<"damaged", "tele", 146, 1>>}

\* the device pushes one more frame (it streams once it has seen opcode 0x96).
\* What the handler is seen to do (decoded, crc_errors, cb_errors, dropped) is
\* counted per streamed frame.
DeviceStream(k) ==
    /\ notifying
    /\ dev.streaming
    /\ dev.budget > 0
    /\ wire = <<>>
    /\ wire' = <<StreamFrame(k)>>
    /\ dev' = [dev EXCEPT !.budget = dev.budget - 1,
                          !.current = k,
                          !.buffered = Len(buffer)]
    /\ decoded' = <<>>
    /\ crc_errors' = 0
    /\ cb_errors' = 0
    /\ dropped' = 0
    /\ UNCHANGED <<buffer, fetch_futures, resp_table, num_cells, capacity, fut, conn,
                   fetcher, disc, scanning, client_connected, notifying, sleeps,
                   last_attempt>>

\* the transport calls _notification_handler with the next n bytes of the
\* frame in transit
Notify(n) ==
    /\ notifying
    /\ wire # <<>>
    /\ n \in 1..Len(Head(wire))
    /\ \E data \in {SubSeq(Head(wire), 1, n)} :
       \E r \in {notification_handler(data, buffer, resp_table, fetch_futures, fut)} :
           /\ wire' = IF n = Len(Head(wire))
                      THEN Tail(wire)
                      ELSE <<SubSeq(Head(wire), n + 1, Len(Head(wire)))>> \o Tail(wire)
           /\ buffer' = r.buffer
           /\ resp_table' = r.resp_table
           /\ fetch_futures' = r.fetch_futures
           /\ fut' = Collect(r.fut, r.fetch_futures, Awaited(conn, fetcher))
           /\ decoded' = decoded \o r.emitted
           /\ crc_errors' = crc_errors + (IF r.crc_failed THEN 1 ELSE 0)
           /\ cb_errors' = cb_errors + (IF r.raised THEN 1 ELSE 0)
           /\ dropped' = dropped + (IF StartsWithPreamble(data) THEN Len(buffer) ELSE 0)
    /\ UNCHANGED <<num_cells, capacity, conn, fetcher, disc, scanning, client_connected,
                   notifying, dev, sleeps, last_attempt>>

----------------------------------------------------------------------------
(* The engine with its callers and its device *)

\* frames a device sends in one run
MaxFrames == 4

\* the device before it has answered anything
FreshDevice ==
    [kind |-> "?", cells |-> -1, streaming |-> FALSE, budget |-> MaxFrames,
     current |-> <<"none">>, buffered |-> 0]

\* fragment sizes of the transport: a frame arrives whole, or cut at PreOffset
FragSizes(w) == IF w = <<>> THEN {} ELSE {PreOffset, Len(Head(w))}

IdleConn == [pc |-> "idle", attempt |-> 0, q |-> 0, awaited |-> 0, err |-> "",
             written |-> <<>>]
IdleFetcher == [pc |-> "idle", awaited |-> 0, err |-> "", sample |-> NoSample]

\* JKBt.__init__, lines 46-50
Constructed ==
    /\ buffer = <<>>
    /\ fetch_futures = EmptyDict
    /\ resp_table = EmptyDict
    /\ num_cells = -1
    /\ capacity = -1
    /\ fut = [i \in FutIds |-> FreeFut]
    /\ decoded = <<>>
    /\ crc_errors = 0
    /\ cb_errors = 0
    /\ dropped = 0

Init ==
    /\ Constructed
    /\ conn = IdleConn
    /\ fetcher = [f \in Fetchers |-> IdleFetcher]
    /\ disc = "idle"
    /\ scanning = FALSE
    /\ client_connected = FALSE
    /\ notifying = FALSE
    /\ wire = <<>>
    /\ dev = FreshDevice
    /\ sleeps = <<>>
    /\ last_attempt = NoAttempt

Next ==
    \/ ConnectStart
    \/ \E discovered \in BOOLEAN, ok \in BOOLEAN : ConnectAttempt(discovered, ok)
    \/ ConnectWake
    \/ ConnectStopScan
    \/ ConnectSubscribe
    \/ ConnectQueryBegin
    \/ \E k \in DeviceKinds, c \in CellCounts : ConnectWritten(k, c)
    \/ ConnectResumed
    \/ ConnectTimeout
    \/ ConnectCancelled
    \/ \E f \in Fetchers, wait \in BOOLEAN : FetchCall(f, wait)
    \/ \E f \in Fetchers : FetchResumed(f)
    \/ \E f \in Fetchers : FetchTimeout(f)
    \/ \E f \in Fetchers : FetchCancelled(f)
    \/ DisconnectBegin
    \/ DisconnectFinish
    \/ \E k \in StreamKinds : DeviceStream(k)
    \/ \E n \in FragSizes(wire) : Notify(n)

Spec == Init /\ [][Next]_vars

----------------------------------------------------------------------------
(* The Frame Assembler on its own: the engine right after start_notify        *)
(* (line 116) with one fetch(wait=True) suspended, facing a device that is    *)
(* streaming already; only the device and the transport act.  The buffer is   *)
(* empty, or holds the start of a telemetry frame whose rest was lost.        *)

\* frames the device streams in one run of the assembler
MaxFeed == 1

DamageOffsets == {4, 146, 299}
DamageDeltas == {1, 128}
PartialLengths == {0, 10, PreOffset}

AsmKinds ==
    {<<"tele">>, <<"pre">>, <<"info">>, <<"damaged", "pre", 4, 1>>}
    \cup {<<"damaged", "tele", off, d>> : off \in DamageOffsets, d \in DamageDeltas}

\* fragment sizes of the transport: two bytes (shorter than the preamble),
\* exactly four bytes, twenty bytes, or all that is left of the frame
FineSizes(w) == IF w = <<>> THEN {} ELSE {2, 4, 20, Len(Head(w))}

InitAsm ==
    /\ buffer \in {SubSeq(TeleFrame(RatedCapacity), 1, n) : n \in PartialLengths}
    /\ fetch_futures = (2 :> 1)
    /\ resp_table = EmptyDict
    /\ num_cells = -1
    /\ capacity = -1
    /\ fut = [i \in FutIds |-> IF i = 1 THEN PendingFut(2) ELSE FreeFut]
    /\ decoded = <<>>
    /\ crc_errors = 0
    /\ cb_errors = 0
    /\ dropped = 0
    /\ conn = [IdleConn EXCEPT !.pc = "subscribed"]
    /\ fetcher = [f \in Fetchers |-> [IdleFetcher EXCEPT !.pc = "wait", !.awaited = 1]]
    /\ disc = "idle"
    /\ scanning = FALSE
    /\ client_connected = TRUE
    /\ notifying = TRUE
    /\ wire = <<>>
    /\ dev = [FreshDevice EXCEPT !.streaming = TRUE, !.budget = MaxFeed]
    /\ sleeps = <<>>
    /\ last_attempt = NoAttempt

NextAsm ==
    \/ \E k \in AsmKinds : DeviceStream(k)
    \/ \E n \in FineSizes(wire) : Notify(n)

SpecAsm == InitAsm /\ [][NextAsm]_vars

----------------------------------------------------------------------------
(* fetch on a bootstrapped engine: connect() has returned for a 16-cell      *)
(* device of the rated capacity (tag-0x03, tag-0x01 and tag-0x02 frames       *)
(* received), the device streams numbered telemetry frames, a caller fetches. *)

\* telemetry frames the device streams in one run
MaxSamples == 2

\* raw 16-bit temperature values
Temperatures == {0, 250, 32768, 65535}

\* the n-th streamed frame reports remaining charge n (0.001 Ah); its full
\* charge field is the rated capacity or 0.5 Ah less
FetchKinds(n) ==
    {<<"sample", full, n, t>> : full \in {RatedCapacity, RatedCapacity - 500},
                                 t \in Temperatures}

\* the number of the frame the device streams next
NextSample == MaxSamples - dev.budget + 1

InitFetch ==
    /\ buffer = <<>>
    /\ fetch_futures = EmptyDict
    /\ resp_table = (1 :> InfoFrame(1, 16, RatedCapacity))
                    @@ (2 :> TeleFrame(RatedCapacity))
                    @@ (3 :> ResponseFrame(3, EmptyDict))
    /\ num_cells = 16
    /\ capacity = RatedCapacity
    /\ fut = [i \in FutIds |-> FreeFut]
    /\ decoded = <<>>
    /\ crc_errors = 0
    /\ cb_errors = 0
    /\ dropped = 0
    /\ conn = [IdleConn EXCEPT !.pc = "done", !.q = 2,
                               !.written = <<CMD_DEVICE_INFO, CMD_DEVICE_STATE>>]
    /\ fetcher = [f \in Fetchers |-> IdleFetcher]
    /\ disc = "idle"
    /\ scanning = FALSE
    /\ client_connected = TRUE
    /\ notifying = TRUE
    /\ wire = <<>>
    /\ dev = [FreshDevice EXCEPT !.kind = "jk", !.cells = 16, !.streaming = TRUE,
                                 !.budget = MaxSamples]
    /\ sleeps = <<>>
    /\ last_attempt = NoAttempt

NextFetch ==
    \/ \E f \in Fetchers, wait \in BOOLEAN : FetchCall(f, wait)
    \/ \E f \in Fetchers : FetchResumed(f)
    \/ \E f \in Fetchers : FetchTimeout(f)
    \/ \E k \in FetchKinds(NextSample) : DeviceStream(k)
    \/ \E n \in FragSizes(wire) : Notify(n)

SpecFetch == InitFetch /\ [][NextFetch]_vars

----------------------------------------------------------------------------
(* A run of notifications the assembler cannot turn into a frame of the        *)
(* device, followed by a valid frame: the engine right after start_notify     *)
(* with one fetch(wait=True) suspended, as for the assembler alone.           *)

\* notifications of one run; all but the last are damaged or malformed
MaxIso == 2

RejectKinds ==
    {<<"damaged", "tele", off, 1>> : off \in DamageOffsets}
    \cup {<<"long">>, <<"zeros">>}

IsoKinds(left) ==
    IF left > 1 THEN RejectKinds ELSE {<<"tele">>, <<"pre">>, <<"info">>}

\* fragment sizes of the transport: four bytes, PreOffset bytes, or the whole
\* notification
IsoSizes(w) == IF w = <<>> THEN {} ELSE {4, PreOffset, Len(Head(w))}

InitIso ==
    /\ buffer = <<>>
    /\ fetch_futures = (2 :> 1)
    /\ resp_table = EmptyDict
    /\ num_cells = -1
    /\ capacity = -1
    /\ fut = [i \in FutIds |-> IF i = 1 THEN PendingFut(2) ELSE FreeFut]
    /\ decoded = <<>>
    /\ crc_errors = 0
    /\ cb_errors = 0
    /\ dropped = 0
    /\ conn = [IdleConn EXCEPT !.pc = "subscribed"]
    /\ fetcher = [f \in Fetchers |-> [IdleFetcher EXCEPT !.pc = "wait", !.awaited = 1]]
    /\ disc = "idle"
    /\ scanning = FALSE
    /\ client_connected = TRUE
    /\ notifying = TRUE
    /\ wire = <<>>
    /\ dev = [FreshDevice EXCEPT !.streaming = TRUE, !.budget = MaxIso]
    /\ sleeps = <<>>
    /\ last_attempt = NoAttempt

NextIso ==
    \/ \E k \in IsoKinds(dev.budget) : DeviceStream(k)
    \/ \E n \in IsoSizes(wire) : Notify(n)

SpecIso == InitIso /\ [][NextIso]_vars

----------------------------------------------------------------------------
(* Properties of the pending-request table *)

\* the tag a task has an outstanding request for, if any
ConnWaitsFor ==
    IF conn.pc = "q_write" \/ (conn.pc = "q_wait" /\ fut[conn.awaited].state = "pending")
    THEN {QueryResp(conn.q)} ELSE {}
FetchWaitsFor(f) ==
    IF fetcher[f].pc = "wait" /\ fut[fetcher[f].awaited].state = "pending"
    THEN {2} ELSE {}

\* C1: at every moment at most one waiter is outstanding per Response Type
\* Tag: a second registration for a tag that has a waiter is refused with
\* AlreadyWaiting, so no two tasks ever wait for the same tag at once.
C1_OneWaiterPerTag ==
    \A f \in Fetchers : ConnWaitsFor \cap FetchWaitsFor(f) = {}

\* C2: a wait that times out removes its Pending Request: the table never
\* holds the future of a timed-out (cancelled) wait.
C2_TimeoutRemovesRequest ==
    \A t \in DOMAIN fetch_futures : fut[fetch_futures[t]].state # "cancelled"

\* C3: the step of disconnect() that clears the table resolves every
\* outstanding Pending Request: no task that was suspended on a pending future
\* is still suspended on a pending future after it.
C3_DisconnectWakesWaiters ==
    [][(disc = "stopping" /\ disc' = "idle") =>
          /\ \A f \in Fetchers :
                 fetcher[f].pc = "wait" => fut'[fetcher[f].awaited].state # "pending"
          /\ conn.pc = "q_wait" => fut'[conn.awaited].state # "pending"]_vars

----------------------------------------------------------------------------
(* Properties of connect() *)

\* 0.2 * 1.5^k seconds for k = 1..7, in 1/640 s
BackoffDelays == <<192, 288, 432, 648, 972, 1458, 2187>>

InLoop == conn.pc \in {"attempt", "sleep"}
PastLoop == conn.pc \in {"stop_scan", "subscribe", "subscribed", "q_write", "q_wait", "done"}

\* C7: the retry loop makes at most 8 attempts; before attempt k+1 it has slept
\* exactly the delays 0.2*1.5^1 .. 0.2*1.5^k; when all 8 attempts have failed it
\* has slept 7 times, discovery is stopped and the error propagates; once an
\* attempt has succeeded there is no further attempt or sleep, and discovery is
\* stopped before the bootstrap begins.
C7_RetryPolicy ==
    /\ [](/\ InLoop => conn.attempt \in 1..8
          /\ conn.pc = "attempt" => sleeps = SubSeq(BackoffDelays, 1, conn.attempt - 1)
          /\ conn.pc = "sleep" =>
                 /\ conn.attempt \in 1..7
                 /\ sleeps = SubSeq(BackoffDelays, 1, conn.attempt)
          /\ conn.err = "ConnectionFailed" =>
                 /\ conn.pc = "failed"
                 /\ last_attempt.n = 8
                 /\ sleeps = BackoffDelays
                 /\ ~scanning
          /\ conn.pc \in {"subscribed", "q_write", "q_wait", "done"} => ~scanning)
    /\ [][/\ (PastLoop \/ conn.pc = "failed") => ~InLoop'
          /\ (conn.pc = "stop_scan" /\ conn'.pc # "stop_scan") =>
                 (conn'.pc = "subscribe" /\ ~scanning')]_vars

C7_Witness ==
    /\ conn.pc = "failed"
    /\ conn.err = "ConnectionFailed"
    /\ Len(sleeps) = 7

\* C8: discovery runs from before the first attempt through all retries; the
\* transport connect is called in an attempt only if the address was in the
\* discovered set read in that attempt; an attempt that finds the device
\* undiscovered is a failed attempt: no transport connect, the client
\* disconnected, one of the 8 attempts used, then the backoff (or, for the
\* 8th, the failure).
C8_DiscoveryPrecedesConnect ==
    /\ (InLoop \/ conn.pc = "stop_scan") => scanning
    /\ last_attempt.called => last_attempt.discovered
    /\ conn.pc = "stop_scan" => (last_attempt.called /\ last_attempt.discovered)
    /\ (last_attempt.n > 0 /\ ~last_attempt.discovered) =>
           /\ ~last_attempt.called
           /\ ~client_connected
           /\ \/ /\ conn.pc = "sleep"
                 /\ conn.attempt = last_attempt.n
                 /\ Len(sleeps) = last_attempt.n
              \/ /\ conn.pc = "attempt"
                 /\ conn.attempt = last_attempt.n + 1
              \/ /\ conn.pc = "failed"
                 /\ last_attempt.n = 8

C8_Witness ==
    /\ conn.pc = "sleep"
    /\ last_attempt.n = 3
    /\ ~last_attempt.discovered
    /\ scanning

\* C9: the device-info query waits for a frame of tag 0x01 and the
\* device-state query is issued only once a tag-0x01 frame has resolved the
\* first; a device answering 0x97 with a tag-0x01 frame and 0x96 with a
\* tag-0x02 frame is bootstrapped without a timeout of the first query.
C9_BootstrapCorrelation ==
    /\ (conn.pc = "q_wait" /\ conn.q = 1) => fut[conn.awaited].tag = 1
    /\ (conn.pc \in {"q_write", "q_wait"} /\ conn.q = 2) => 1 \in DOMAIN resp_table
    /\ ~(/\ dev.kind = "spec"
         /\ conn.pc = "failed"
         /\ conn.q = 1
         /\ conn.err = "ResponseTimeout"
         /\ 1 \in DOMAIN resp_table)

\* C10: when the bootstrap reaches the parse of Device Identity from the
\* device-info frame (cell count c at offset 114, capacity r at offset 130), it
\* succeeds with (cells = c, capacity = r/1000) exactly when 0 < c <= 48 (16
\* cells and r = 100000 give (16, 100.0)), and fails with InvalidDeviceIdentity
\* for c = 0 and c >= 49.
C10_IdentityValidation ==
    /\ [](/\ conn.pc = "done" =>
                 /\ 1 \in DOMAIN resp_table
                 /\ num_cells = resp_table[1][115]
                 /\ num_cells \in 1..48
                 /\ capacity = resp_table[1][131] + 256 * resp_table[1][132]
                               + 65536 * resp_table[1][133]
                               + 16777216 * resp_table[1][134]
                 /\ (dev.cells = 16 => (num_cells = 16 /\ capacity = 100000))
          /\ conn.err = "InvalidDeviceIdentity" =>
                 /\ conn.pc = "failed"
                 /\ resp_table[1][115] \notin 1..48)
    /\ [][(/\ conn.pc = "q_wait"
           /\ conn.q = 2
           /\ conn'.pc \in {"done", "failed"}
           /\ fut[conn.awaited].state = "done"
           /\ 1 \in DOMAIN resp_table) =>
              /\ (conn'.pc = "done") <=> (resp_table[1][115] \in 1..48)
              /\ (conn'.pc = "failed") <=> (conn'.err = "InvalidDeviceIdentity")]_vars

C10_Witness ==
    /\ conn.pc = "done"
    /\ num_cells = 16
    /\ capacity = 100000

C10_WitnessRejected ==
    /\ conn.err = "InvalidDeviceIdentity"
    /\ num_cells = 49

----------------------------------------------------------------------------
(* Properties of the Frame Assembler *)

CurrentValid == dev.current[1] \in {"tele", "other", "pre", "info"}
CurrentDamaged == dev.current[1] = "damaged"

\* the bytes handed to _notification_handler in a step that delivers
DeliveredData ==
    IF Len(wire') < Len(wire)
    THEN Head(wire)
    ELSE SubSeq(Head(wire), 1, Len(Head(wire)) - Len(Head(wire')))

\* C4: a valid 300-byte frame delivered, from an empty buffer, in consecutive
\* fragments (any boundaries, any valid content) is passed to the router
\* exactly once, byte for byte, and the buffer is empty afterwards.
C4_Reassembly ==
    (CurrentValid /\ dev.buffered = 0 /\ wire = <<>>) =>
        /\ decoded = <<ValidFrame(dev.current)>>
        /\ buffer = <<>>

\* C5: a fragment beginning with 55 AA EB 90 that arrives while a partial frame
\* is buffered discards the buffered bytes: what the buffer holds and what is
\* emitted after that call comes from the fragment alone, and no checksum
\* error is raised for the discarded bytes; the valid frame that begins with
\* that fragment is then emitted exactly once, equal to the frame sent.
C5_PreambleResync ==
    /\ []((CurrentValid /\ wire = <<>> /\ dev.buffered \in 1..(MIN_RESPONSE_SIZE - 1)
              /\ dropped = dev.buffered) =>
             /\ decoded = <<ValidFrame(dev.current)>>
             /\ crc_errors = 0)
    /\ [][dropped' > dropped =>
             /\ buffer' \in {<<>>, DeliveredData}
             /\ decoded' \in {decoded, Append(decoded, DeliveredData)}
             /\ crc_errors' # crc_errors => Len(DeliveredData) >= MIN_RESPONSE_SIZE]_vars

C5_Witness ==
    /\ dev.current = <<"tele">>
    /\ wire = <<>>
    /\ dev.buffered = PreOffset
    /\ dropped = PreOffset
    /\ decoded = <<TeleFrame(RatedCapacity)>>

\* C6: a response frame with exactly one byte outside the preamble changed
\* (the trailer included), assembled from its own bytes, fails the checksum
\* once: no frame reaches the router while or after it is delivered, the
\* buffer is cleared, and the step that reports the checksum error leaves the
\* last-known store and the pending waiters as they were.
C6_ChecksumRejection ==
    /\ []((CurrentDamaged /\ dropped = dev.buffered) =>
             /\ decoded = <<>>
             /\ wire = <<>> => (crc_errors = 1 /\ buffer = <<>>))
    /\ [][crc_errors' = crc_errors + 1 =>
             /\ resp_table' = resp_table
             /\ fetch_futures' = fetch_futures
             /\ fut' = fut
             /\ decoded' = decoded
             /\ buffer' = <<>>]_vars

C6_Witness ==
    /\ CurrentDamaged
    /\ dev.current[3] = 146
    /\ dev.current[4] = 128
    /\ dev.buffered = 0
    /\ dropped = 0
    /\ wire = <<>>
    /\ crc_errors = 1
    /\ fut[1].state = "pending"

----------------------------------------------------------------------------
(* Properties of the session: bootstrap failure, routing, disconnect *)

\* C11: a bootstrap failure (a bootstrap query timing out, or the Device
\* Identity check failing) aborts the connection attempt: once connect() has
\* failed that way the engine is not left with the transport connected and
\* the notification subscription active.
C11_BootstrapFailureAborts ==
    (conn.pc = "failed" /\ conn.err \in {"ResponseTimeout", "InvalidDeviceIdentity"}) =>
        ~(client_connected /\ notifying)

\* a step in which the handler passed a frame to the router
Routed == Len(decoded') = Len(decoded) + 1
RoutedFrame == decoded'[Len(decoded')]

\* C13: a verified frame of tag t is stored as the last-known frame of t and
\* the entries of other tags stay; if the table has a waiter for t, that
\* waiter (and no other) is resolved with the stored frame and its entry is
\* removed; if it has none, the table and the futures are unchanged.
C13_Router ==
    [][Routed =>
          /\ DOMAIN resp_table' = DOMAIN resp_table \cup {RoutedFrame[5]}
          /\ resp_table'[RoutedFrame[5]] = RoutedFrame
          /\ \A u \in DOMAIN resp_table \ {RoutedFrame[5]} : resp_table'[u] = resp_table[u]
          /\ IF RoutedFrame[5] \in DOMAIN fetch_futures
             THEN /\ fut'[fetch_futures[RoutedFrame[5]]].state = "done"
                  /\ fut'[fetch_futures[RoutedFrame[5]]].result = RoutedFrame
                  /\ DOMAIN fetch_futures' = DOMAIN fetch_futures \ {RoutedFrame[5]}
                  /\ \A u \in DOMAIN fetch_futures' :
                         /\ fetch_futures'[u] = fetch_futures[u]
                         /\ fut'[fetch_futures[u]] = fut[fetch_futures[u]]
             ELSE /\ fetch_futures' = fetch_futures
                  /\ fut' = fut]_vars

\* C14: when disconnect() completes, the fragment buffer, the pending-request
\* table and the last-known-frame store are all empty.
C14_DisconnectDiscardsSession ==
    [][(disc = "stopping" /\ disc' = "idle") =>
          /\ buffer' = <<>>
          /\ fetch_futures' = EmptyDict
          /\ resp_table' = EmptyDict]_vars

\* C17: after a waiter has timed out, the frames that arrive are handled
\* without an error: no call of the notification handler raises, and the
\* buffer is cleared after every frame passed to the router.
C17_TimeoutLeavesEngineUsable ==
    /\ cb_errors = 0
    /\ (decoded # <<>> /\ wire = <<>>) => buffer = <<>>

----------------------------------------------------------------------------
(* Progress *)

\* What the asyncio event loop guarantees: a task that can run is run, a timer
\* that has expired fires, and the transport finishes what it was asked to do
\* (the connect has its own timeout, a write returns, a notification received
\* is handed to the callback).  What the callers and the device choose to do
\* (calling connect, fetch or disconnect; streaming another frame) is not
\* forced.

\* the transport has something to hand to the callback: Notify is enabled
NotifyEnabled == notifying /\ wire # <<>>
\* a step that hands over a fragment: a Notify step
NotifyStep ==
    /\ NotifyEnabled
    /\ notifying'
    /\ \/ Len(wire') < Len(wire)
       \/ Len(Head(wire')) < Len(Head(wire))

\* write_gatt_char is in progress: ConnectWritten is enabled
WriteEnabled == conn.pc = "q_write"
\* the step in which it returns: a ConnectWritten step
WriteStep == WriteEnabled /\ conn'.pc # "q_write"

\* Weak fairness of every step of the tasks and of the transport.  For Notify
\* and ConnectWritten it is written out (WF_v(A) is <>[]ENABLED <<A>>_v =>
\* []<><<A>>_v) with the enabling condition as a state predicate.
Fairness ==
    /\ WF_vars(\E discovered \in BOOLEAN, ok \in BOOLEAN : ConnectAttempt(discovered, ok))
    /\ WF_vars(ConnectWake)
    /\ WF_vars(ConnectStopScan)
    /\ WF_vars(ConnectSubscribe)
    /\ WF_vars(ConnectQueryBegin)
    /\ ([]<>(~WriteEnabled) \/ []<><<WriteStep>>_vars)
    /\ WF_vars(ConnectResumed)
    /\ WF_vars(ConnectTimeout)
    /\ WF_vars(ConnectCancelled)
    /\ \A f \in Fetchers : WF_vars(FetchResumed(f))
    /\ \A f \in Fetchers : WF_vars(FetchTimeout(f))
    /\ \A f \in Fetchers : WF_vars(FetchCancelled(f))
    /\ WF_vars(DisconnectFinish)
    /\ ([]<>(~NotifyEnabled) \/ []<><<NotifyStep>>_vars)

\* For the waits of connect, _q and fetch a streamed frame matters only by
\* whether it completes a waiter: a telemetry frame that passes the checksum
\* (lines 68-69, 78-80) or one that fails it (lines 66-67).
LiveKinds == {<<"tele">>, <<"damaged", "tele", 146, 1>>}

\* the steps of Next, with the device streaming frames of LiveKinds
NextLive ==
    \/ ConnectStart
    \/ \E discovered \in BOOLEAN, ok \in BOOLEAN : ConnectAttempt(discovered, ok)
    \/ ConnectWake
    \/ ConnectStopScan
    \/ ConnectSubscribe
    \/ ConnectQueryBegin
    \/ \E k \in DeviceKinds, c \in CellCounts : ConnectWritten(k, c)
    \/ ConnectResumed
    \/ ConnectTimeout
    \/ ConnectCancelled
    \/ \E f \in Fetchers, wait \in BOOLEAN : FetchCall(f, wait)
    \/ \E f \in Fetchers : FetchResumed(f)
    \/ \E f \in Fetchers : FetchTimeout(f)
    \/ \E f \in Fetchers : FetchCancelled(f)
    \/ DisconnectBegin
    \/ DisconnectFinish
    \/ \E k \in LiveKinds : DeviceStream(k)
    \/ \E n \in FragSizes(wire) : Notify(n)

SpecLive == Init /\ [][NextLive]_vars /\ Fairness

ConnSuspended == conn.pc \notin {"idle", "done", "failed"}
ConnEnded == conn.pc \in {"done", "failed"}

\* C12: every caller suspended in the engine is eventually resumed: connect()
\* (in an attempt, a backoff sleep or a bootstrap query) ends in success or
\* failure after at most 8 attempts, every fetch(wait=True) ends (by a frame,
\* by its timeout or by a cancellation) whatever happened to its table entry
\* in the meantime, and a disconnect() that has begun completes.
C12_NoDeadlock ==
    /\ ConnSuspended ~> ConnEnded
    /\ \A f \in Fetchers : (fetcher[f].pc = "wait") ~> (fetcher[f].pc \in {"done", "failed"})
    /\ (disc = "stopping") ~> (disc = "idle")
    /\ [](InLoop => conn.attempt <= 8)

\* a fetch(wait=True) whose table entry was cleared by disconnect() has ended
\* by its timeout
C12_Witness ==
    /\ \E f \in Fetchers : fetcher[f].pc = "failed" /\ fetcher[f].err = "ResponseTimeout"
    /\ fetch_futures = EmptyDict
    /\ ~client_connected
    /\ conn.pc = "done"

----------------------------------------------------------------------------
(* Properties of fetch *)

\* the 4-byte little-endian unsigned value of frame b at python offset off
Field32(b, off) ==
    b[off + 1] + 256 * b[off + 2] + 65536 * b[off + 3] + 16777216 * b[off + 4]

\* the 2-byte little-endian two's-complement value of frame b at offset off
Signed16(b, off) ==
    IF b[off + 2] >= 128
    THEN b[off + 1] + 256 * b[off + 2] - 65536
    ELSE b[off + 1] + 256 * b[off + 2]

\* a step in which fetch decodes the last-known telemetry frame and returns
\* or raises (lines 160-178)
Decodes(f) ==
    /\ fetcher'[f] # fetcher[f]
    /\ fetcher'[f].pc \in {"done", "failed"}
    /\ fetcher'[f].err \notin {"ResponseTimeout", "Cancelled"}

\* C15: when fetch decodes a telemetry frame whose full-charge field (offset
\* 146) equals the Device Identity capacity it returns a sample whose
\* charge_full is that capacity; when the field differs it fails with
\* CapacityMismatch and changes nothing of the engine (buffer, pending table,
\* last-known store, Device Identity); this holds for every fetch, so also
\* for the fetch that follows a mismatch.
C15_CapacityCheck ==
    [][\A f \in Fetchers :
          (Decodes(f) /\ 2 \in DOMAIN resp_table /\ capacity # -1) =>
              IF Field32(resp_table[2], 146) = capacity
              THEN /\ fetcher'[f].pc = "done"
                   /\ fetcher'[f].sample.charge_full = capacity
                   /\ fetcher'[f].sample.charge_full = Field32(resp_table[2], 146)
              ELSE /\ fetcher'[f].pc = "failed"
                   /\ fetcher'[f].err = "CapacityMismatch"
                   /\ buffer' = buffer
                   /\ fetch_futures' = fetch_futures
                   /\ resp_table' = resp_table
                   /\ num_cells' = num_cells
                   /\ capacity' = capacity]_vars

\* a fetch has failed on the first streamed frame (0.5 Ah short) and the
\* second, matching frame is now the last-known one
C15_Witness ==
    /\ \E f \in Fetchers : fetcher[f].pc = "failed" /\ fetcher[f].err = "CapacityMismatch"
    /\ Field32(resp_table[2], 142) = 2
    /\ Field32(resp_table[2], 146) = capacity
    /\ wire = <<>>

\* C16: the temperatures of a sample are the 2-byte two's-complement signed
\* values of the decoded frame's fields at offsets 130 and 132, its MOS
\* temperature that of the field at offset 134 (FF FF gives -1, not 65535).
C16_SignedTemperatures ==
    [][\A f \in Fetchers :
          (Decodes(f) /\ fetcher'[f].pc = "done") =>
              /\ fetcher'[f].sample.temperatures =
                     <<Signed16(resp_table[2], 130), Signed16(resp_table[2], 132)>>
              /\ fetcher'[f].sample.mos_temperature = Signed16(resp_table[2], 134)]_vars

\* C19: a fetch(wait=True) that resumes on its resolved future finds a
\* tag-0x02 entry in the last-known store, and decodes a frame that is the
\* frame which resolved its future or a later one (the streamed frames are
\* numbered by their charge field; the frame stored before any fetch is
\* number 0), never an earlier one.
C19_FetchWaitsForNextFrame ==
    [][\A f \in Fetchers :
          (/\ fetcher[f].pc = "wait"
           /\ fetcher'[f].pc \in {"done", "failed"}
           /\ fut[fetcher[f].awaited].state = "done") =>
              /\ 2 \in DOMAIN resp_table
              /\ fetcher'[f].err # "NoDataYet"
              /\ fut[fetcher[f].awaited].result[5] = 2
              /\ Field32(fut[fetcher[f].awaited].result, 142) >= 1
              /\ Field32(resp_table[2], 142) >= Field32(fut[fetcher[f].awaited].result, 142)
              /\ fetcher'[f].pc = "done" =>
                     fetcher'[f].sample.charge = Field32(resp_table[2], 142)]_vars

\* a fetch(wait=True) has returned the sample of the second streamed frame
C19_Witness ==
    \E f \in Fetchers :
        /\ fetcher[f].pc = "done"
        /\ fetcher[f].sample.charge = 2
        /\ fetcher[f].awaited = 0
        /\ fetch_futures = EmptyDict

----------------------------------------------------------------------------
(* Properties of the stored frames *)

\* C18: the step that rejects a frame with a checksum error leaves the
\* last-known store and the pending-request table as they were and resets the
\* buffer; whatever was rejected before it, a valid frame whose first
\* fragment begins with the preamble, assembled from its own bytes, is
\* emitted once, stored under its tag, and its tag's waiter is resolved.
C18_FailuresIsolated ==
    /\ [][crc_errors' = crc_errors + 1 =>
             /\ resp_table' = resp_table
             /\ fetch_futures' = fetch_futures
             /\ fut' = fut
             /\ buffer' = <<>>]_vars
    /\ []((CurrentValid /\ wire = <<>> /\ dropped = dev.buffered) =>
             /\ decoded = <<ValidFrame(dev.current)>>
             /\ ValidFrame(dev.current)[5] \in DOMAIN resp_table
             /\ resp_table[ValidFrame(dev.current)[5]] = ValidFrame(dev.current)
             /\ ValidFrame(dev.current)[5] \notin DOMAIN fetch_futures
             /\ ValidFrame(dev.current)[5] = 2 => fut[1].state = "done")

\* a tag-0x01 frame has been routed after a frame that left no trace: nothing
\* else is stored and the waiter for tag 0x02 is still pending
C18_Witness ==
    /\ dev.budget = 0
    /\ dev.current = <<"info">>
    /\ wire = <<>>
    /\ decoded = <<InfoFrame(1, 16, RatedCapacity)>>
    /\ DOMAIN resp_table = {1}
    /\ fut[1].state = "pending"
    /\ buffer = <<>>

WellFormed(b, t) ==
    /\ Len(b) = 300
    /\ SubSeq(b, 1, 4) = <<85, 170, 235, 144>>
    /\ b[5] = t
    /\ b[300] = SumBytes(b, 1, 299) % 256

\* C20: every frame in the last-known-frame store and every frame delivered
\* to a waiter is exactly 300 bytes long, begins with 55 AA EB 90, is filed
\* under the tag at its offset 4, and ends with the sum of its first 299
\* bytes modulo 256.
C20_StoredFramesWellFormed ==
    /\ \A t \in DOMAIN resp_table : WellFormed(resp_table[t], t)
    /\ \A i \in FutIds : fut[i].state = "done" => WellFormed(fut[i].result, fut[i].tag)

====
